---- MODULE Spec2Model ----
(***************************************************************************)
(* Model of the MTG Arena log pipeline of scripts/arena_log_parser.py and  *)
(* scripts/arena_watcher.py: the block extractor (extract_json_blocks),    *)
(* the match reconstructor (extract_matches, build_match), persistence     *)
(* (store_matches) and the live tailer (tail_file, process_new_content,    *)
(* main).                                                                  *)
(*                                                                         *)
(* Encoding of Python values:                                              *)
(*   None (a name)        NoneStr         None (a team id)   NoTeam        *)
(*   None / "" where the code only tests truthiness          ""            *)
(*   an optional dict or list   a sequence of length 0 (absent) or 1       *)
(***************************************************************************)
EXTENDS Integers, Sequences, FiniteSets, TLC

\* ------------------------------------------------------------------ bounds
\* Number of blocks one replay of the reconstructor folds.
MaxBlocks == 4

\* Number of entries of a chunked log text, and of chunks it is fed in.
MaxEntries == 3
MaxChunks == 2

\* The watch: steps of the vendor process on the watched path (appends,
\* truncations, rotations) and tokens the buffer holds when a read starts.
MaxVendor == 3
MaxBuffer == 10

\* Number of pieces a raw format label is made of.
MaxPieces == 2

\* The safety limit of collect_json.
SafetyLimit == 500

\* Number of lines by which a scanned text exceeds the safety limit.
MaxOver == 2

\* --------------------------------------------------------- value encoding
NoneStr == "<None>"
NoTeam == 0
NoFile == 0
\* An "authenticateResponse" member whose value is a string, not an object.
NotADict == "<str>"

Some(x) == <<x>>
Nothing == << >>

\* ------------------------------------------------------------- input data
PlayerP == "TestPlayer"
OpponentO == "Opponent1"

TypeGameState == "GREMessageType_GameStateMessage"
ScopeMatch == "MatchScope_Match"
ScopeGame == "MatchScope_Game"
WinLoss == "ResultType_WinLoss"
Draw == "ResultType_Draw"
Invalid == "ResultType_Invalid"

\* The keys of a payload that the pipeline reads; every other key of the
\* payload is irrelevant to it.  request is the decoded content of the
\* escaped "request" string of an outbound call.  midInPrefix says whether the text "matchId"
\* occurs in the first 100 characters of str(data).
NoData ==
    [ screenName |-> NoneStr, request |-> Nothing, parsed_request |-> Nothing,
      room |-> Nothing,
      gre |-> Nothing, matchId |-> "", midInPrefix |-> FALSE ]

Roster(ev) ==
    << [playerName |-> PlayerP, teamId |-> 1, eventId |-> ev],
       [playerName |-> OpponentO, teamId |-> 2, eventId |-> ev] >>

\* finalMatchResult values: a game-scope entry followed by the match-scope one.
Fmr(gameWinner, rtype, matchWinner) ==
    [ resultList |->
        << [scope |-> ScopeGame, result |-> WinLoss, winningTeamId |-> gameWinner],
           [scope |-> ScopeMatch, result |-> rtype, winningTeamId |-> matchWinner] >> ]

FmrGameOnly ==
    [ resultList |->
        << [scope |-> ScopeGame, result |-> WinLoss, winningTeamId |-> 1] >> ]

GameState(turn, objs) ==
    [ type |-> TypeGameState, turnNumber |-> turn, gameObjects |-> objs ]

Obj(g, seat) == [grpId |-> g, ownerSeatId |-> seat]

DeckReq(ev) ==
    [ EventName |-> ev,
      MainDeck |-> << [cardId |-> 67890, quantity |-> 4] >>,
      CommandZone |-> << [cardId |-> 12345] >> ]

JoinReq(ev) == [ EventName |-> ev, MainDeck |-> << >>, CommandZone |-> << >> ]

\* ---------------------------------------------------------------- blocks
Block(method, data) == [method |-> method, data |-> data]

BAuth == Block("AuthenticateResponse", [NoData EXCEPT !.screenName = PlayerP])
\* An outbound call: its "request" string and the decoded "_parsed_request".
BDeck(ev) ==
    Block("EventSetDeckV2",
          [NoData EXCEPT !.request = Some(DeckReq(ev)), !.parsed_request = Some(DeckReq(ev))])
BJoin(ev) ==
    Block("EventJoin",
          [NoData EXCEPT !.request = Some(JoinReq(ev)), !.parsed_request = Some(JoinReq(ev))])
BRoom(mid, roster, fmr) ==
    Block("MatchGameRoomStateChangedEvent",
          [NoData EXCEPT !.room = Some([matchId |-> mid, reservedPlayers |-> roster,
                                        finalMatchResult |-> fmr])])
BGre(msgs) == Block("GreToClientEvent", [NoData EXCEPT !.gre = Some(msgs)])
BStandalone(mid) ==
    Block("standalone", [NoData EXCEPT !.matchId = mid, !.midInPrefix = TRUE])
\* A logger-prefixed payload line is tagged "standalone" whatever it holds
\* (pattern 4 of extract_json_blocks): a room state and a top-level matchId.
BDual(roomMid, fmr, topMid) ==
    Block("standalone",
          [NoData EXCEPT !.room = Some([matchId |-> roomMid,
                                        reservedPlayers |-> Roster("Ladder"),
                                        finalMatchResult |-> fmr]),
                         !.matchId = topMid, !.midInPrefix = TRUE])


\* ------------------------------------------------------ _normalize_format
\* A text is the sequence of its characters.  Spell gives the text of the
\* string constants of the code and of the labels of the replays.
Spell(s) ==
    CASE s = "brawl" -> << "b", "r", "a", "w", "l" >>
      [] s = "historic" -> << "h", "i", "s", "t", "o", "r", "i", "c" >>
      [] s = "standard" -> << "s", "t", "a", "n", "d", "a", "r", "d" >>
      [] s = "ladder" -> << "l", "a", "d", "d", "e", "r" >>
      [] s = "play_constructed" -> << "p", "l", "a", "y", "_", "c", "o", "n", "s", "t", "r", "u", "c", "t", "e", "d" >>
      [] s = "explorer" -> << "e", "x", "p", "l", "o", "r", "e", "r" >>
      [] s = "timeless" -> << "t", "i", "m", "e", "l", "e", "s", "s" >>
      [] s = "draft" -> << "d", "r", "a", "f", "t" >>
      [] s = "sealed" -> << "s", "e", "a", "l", "e", "d" >>
      [] s = "alchemy" -> << "a", "l", "c", "h", "e", "m", "y" >>
      [] s = "Historic Brawl" -> << "H", "i", "s", "t", "o", "r", "i", "c", " ", "B", "r", "a", "w", "l" >>
      [] s = "Standard Brawl" -> << "S", "t", "a", "n", "d", "a", "r", "d", " ", "B", "r", "a", "w", "l" >>
      [] s = "Brawl" -> << "B", "r", "a", "w", "l" >>
      [] s = "Standard" -> << "S", "t", "a", "n", "d", "a", "r", "d" >>
      [] s = "Historic" -> << "H", "i", "s", "t", "o", "r", "i", "c" >>
      [] s = "Explorer" -> << "E", "x", "p", "l", "o", "r", "e", "r" >>
      [] s = "Timeless" -> << "T", "i", "m", "e", "l", "e", "s", "s" >>
      [] s = "Draft" -> << "D", "r", "a", "f", "t" >>
      [] s = "Sealed" -> << "S", "e", "a", "l", "e", "d" >>
      [] s = "Alchemy" -> << "A", "l", "c", "h", "e", "m", "y" >>
      [] s = "Play_Brawl_Historic" -> << "P", "l", "a", "y", "_", "B", "r", "a", "w", "l", "_", "H", "i", "s", "t", "o", "r", "i", "c" >>
      [] s = "Ladder" -> << "L", "a", "d", "d", "e", "r" >>
      [] s = "Play_" -> << "P", "l", "a", "y", "_" >>
      [] s = "Constructed" -> << "C", "o", "n", "s", "t", "r", "u", "c", "t", "e", "d" >>
      [] s = "BRAWL" -> << "B", "R", "A", "W", "L" >>
      [] s = "Bra" -> << "B", "r", "a" >>
      [] s = "wl" -> << "w", "l" >>
      [] s = "Quick" -> << "Q", "u", "i", "c", "k" >>
      [] s = " " -> << " " >>
      [] s = "_" -> << "_" >>
      [] OTHER -> << >>

UpperCase == << "A", "B", "C", "D", "E", "F", "G", "H", "I", "J", "K", "L", "M", "N", "O", "P", "Q", "R", "S", "T", "U", "V", "W", "X", "Y", "Z" >>
LowerCase == << "a", "b", "c", "d", "e", "f", "g", "h", "i", "j", "k", "l", "m", "n", "o", "p", "q", "r", "s", "t", "u", "v", "w", "x", "y", "z" >>

\* str.lower() of one character and of a text (line 414).
SameChar(c) == c
LowerChar(c) ==
    IF \E k \in 1..26 : UpperCase[k] = c THEN LowerCase[CHOOSE k \in 1..26 : UpperCase[k] = c] ELSE c

Lower(t) == [ k \in 1..Len(t) |-> LowerChar(t[k]) ]

\* "w in t": w occurs in t as a substring.
Contains(t, w) == \E q \in 0..(Len(t) - Len(w)) : SubSeq(t, q + 1, q + Len(w)) = w

KeywordSet ==
    { "brawl", "historic", "standard", "ladder", "play_constructed", "explorer", "timeless", "draft", "sealed", "alchemy" }

\* The keywords of _normalize_format that occur in the lower-cased text.
Keywords(event_lower) == { w \in KeywordSet : Contains(event_lower, Spell(w)) }

\* The if-chain of lines 415-434 over the keywords kw found in the
\* lower-cased text: the display name returned, "" when no branch is taken.
DisplayName(kw) ==
    IF "brawl" \in kw /\ "historic" \in kw THEN "Historic Brawl"
    ELSE IF "brawl" \in kw /\ "standard" \in kw THEN "Standard Brawl"
    ELSE IF "brawl" \in kw THEN "Brawl"
    ELSE IF "ladder" \in kw \/ "play_constructed" \in kw THEN "Standard"
    ELSE IF "historic" \in kw THEN "Historic"
    ELSE IF "explorer" \in kw THEN "Explorer"
    ELSE IF "timeless" \in kw THEN "Timeless"
    ELSE IF "draft" \in kw THEN "Draft"
    ELSE IF "sealed" \in kw THEN "Sealed"
    ELSE IF "alchemy" \in kw THEN "Alchemy"
    ELSE ""

\* Line 435: the label itself when no branch returned.
Returned(name, event_id) == IF name = "" THEN event_id ELSE Spell(name)

\* _normalize_format(event_id) on texts.
NormalizeText(event_id) == Returned(DisplayName(Keywords(Lower(event_id))), event_id)

DisplayNames ==
    { "Historic Brawl", "Standard Brawl", "Brawl", "Standard", "Historic", "Explorer", "Timeless", "Draft", "Sealed", "Alchemy" }

\* The string a text spells, among the labels of the replays and the
\* display names.
NameOf(t) == CHOOSE n \in DisplayNames \cup { "Play_Brawl_Historic", "Ladder" } : Spell(n) = t

\* _normalize_format(event_id) on the labels of the replays.
NormalizeFormat(event_id) == NameOf(NormalizeText(Spell(event_id)))

\* ------------------------------------------------------------ build_match
\* An accumulated event: {"_finalMatchResult": fmr} or a GRE message.  blk is
\* a history field: the index of the block the event came from.
FmrEvent(blk, fmr) == [blk |-> blk, fmr |-> Some(fmr), msg |-> Nothing]
MsgEvent(blk, msg) == [blk |-> blk, fmr |-> Nothing, msg |-> Some(msg)]

FirstOfAnyScope(rl) == IF rl = << >> THEN 0 ELSE 1

\* Index of the first match-scope entry of a result list (the loop breaks
\* there), 0 when there is none.
FirstMatchScope(rl) ==
    LET I == {i \in 1..Len(rl) : rl[i].scope = ScopeMatch} IN
    IF I = {} THEN 0 ELSE CHOOSE i \in I : \A j \in I : i <= j

\* "WinLoss" in result_type or "Win" in result_type
ContainsWin(result_type) == result_type = WinLoss

DecideGuessWin(r, player_team_id, result) ==
    IF r.result = Draw THEN "draw"
    ELSE IF r.winningTeamId /= NoTeam /\ player_team_id /= NoTeam
         THEN (IF r.winningTeamId = player_team_id THEN "win" ELSE "loss")
    ELSE IF ContainsWin(r.result) THEN "win"
    ELSE result

\* The result one match-scope entry gives, result being the value so far.
Decide(r, player_team_id, result) ==
    IF r.result = Draw THEN "draw"
    ELSE IF r.winningTeamId /= NoTeam /\ player_team_id /= NoTeam
         THEN (IF r.winningTeamId = player_team_id THEN "win" ELSE "loss")
    ELSE IF ContainsWin(r.result) THEN "loss"
    ELSE result

RECURSIVE ResultFrom(_, _, _, _)
ResultFrom(events, i, player_team_id, result) ==
    IF i > Len(events) THEN result
    ELSE LET e == events[i]
             k == IF e.fmr = Nothing THEN 0 ELSE FirstMatchScope(e.fmr[1].resultList)
             r == IF k = 0 THEN result
                  ELSE Decide(e.fmr[1].resultList[k], player_team_id, result)
         IN ResultFrom(events, i + 1, player_team_id, r)

IsGameState(e) == e.msg /= Nothing /\ e.msg[1].type = TypeGameState

\* json.dumps(list(s)) of a set s of strings (lines 406-407): the order in
\* which a set is listed depends on the hashes of its strings, which differ
\* from one run of the interpreter to the next; any order can come out.
ListOrders(S) ==
    { f \in [1..Cardinality(S) -> S] : \A x \in S : \E i \in 1..Cardinality(S) : f[i] = x }

RECURSIVE TurnsLast(_, _, _)
TurnsLast(events, i, turns) ==
    IF i > Len(events) THEN turns
    ELSE TurnsLast(events, i + 1, IF IsGameState(events[i]) THEN events[i].msg[1].turnNumber ELSE turns)

RECURSIVE TurnsFrom(_, _, _)
TurnsFrom(events, i, turns) ==
    IF i > Len(events) THEN turns
    ELSE LET t == IF IsGameState(events[i]) THEN events[i].msg[1].turnNumber ELSE 0
         IN TurnsFrom(events, i + 1, IF t > turns THEN t ELSE turns)

Range(s) == { s[i] : i \in 1..Len(s) }

\* grpId of every game object of the accumulated game states that has a
\* positive grpId and the given owner seat.
CardsOfSeat(events, seat) ==
    UNION { { go.grpId : go \in { o \in Range(e.msg[1].gameObjects) :
                                     o.grpId > 0 /\ o.ownerSeatId = seat } } :
            e \in { x \in Range(events) : IsGameState(x) } }

BuildMatchAlways(match_id, events, deck, player_name, opponent_name, player_team_id, event_format) ==
    LET result == ResultFrom(events, 1, player_team_id, "") IN
    Some([ match_id |-> match_id,
           player_name |-> player_name,
           opponent_name |-> opponent_name,
           result |-> result,
           format |-> IF event_format /= "" THEN NormalizeFormat(event_format) ELSE "",
           turns |-> TurnsFrom(events, 1, 0),
           deck_cards |-> IF deck /= Nothing /\ deck[1] /= << >> THEN deck ELSE Nothing,
           cards_played |-> CardsOfSeat(events, 1),
           opponent_cards_seen |-> CardsOfSeat(events, 2) ])

\* build_match: Nothing when no result was derived, else the record.
BuildMatch(match_id, events, deck, player_name, opponent_name, player_team_id, event_format) ==
    LET result == ResultFrom(events, 1, player_team_id, "") IN
    IF result = "" THEN Nothing
    ELSE Some([ match_id |-> match_id,
                player_name |-> player_name,
                opponent_name |-> opponent_name,
                result |-> result,
                format |-> IF event_format /= "" THEN NormalizeFormat(event_format) ELSE "",
                turns |-> TurnsFrom(events, 1, 0),
                deck_cards |-> IF deck /= Nothing /\ deck[1] /= << >> THEN deck ELSE Nothing,
                cards_played |-> CardsOfSeat(events, 1),
                opponent_cards_seen |-> CardsOfSeat(events, 2) ])


\* -------------------------------------------------------- extract_matches
\* The local variables of extract_matches.  calls, nblk, start and sig are
\* history fields: every build_match call made so far, the number of the
\* block being folded, the block at which the current match identifier was
\* adopted, the session values at the latest completion signal, and the
\* blocks folded so far.
NoSig == [mid |-> "", deck |-> Nothing, player_name |-> NoneStr, format |-> ""]

InitState ==
    [ matches |-> << >>, current_deck |-> Nothing, current_match_id |-> "",
      current_events |-> << >>, player_name |-> NoneStr, player_team_id |-> NoTeam,
      opponent_name |-> NoneStr, event_format |-> "",
      calls |-> << >>, nblk |-> 0, start |-> 0, sig |-> NoSig, blocks |-> << >> ]

\* "if current_match_id and current_events: match = build_match(...);
\*  if match: matches.append(match)"
Appended(st, m) ==
         [st EXCEPT !.matches = IF m /= Nothing THEN Append(@, m[1]) ELSE @,
                       !.calls = Append(@, [ mid |-> st.current_match_id,
                                             events |-> st.current_events,
                                             team |-> st.player_team_id,
                                             deck |-> st.current_deck,
                                             player_name |-> st.player_name,
                                             format |-> st.event_format,
                                             start |-> st.start,
                                             at |-> st.nblk,
                                             sig |-> st.sig,
                                             rec |-> m ])]

SavePrevious(st) ==
    IF st.current_match_id /= "" /\ st.current_events /= << >>
    THEN Appended(st, BuildMatch(st.current_match_id, st.current_events, st.current_deck,
                                 st.player_name, st.opponent_name, st.player_team_id,
                                 st.event_format))
    ELSE st

\* Lines 234-236.
ApplyAuth(st, b) ==
    IF b.data.screenName \notin {NoneStr, ""}
    THEN [st EXCEPT !.player_name = b.data.screenName]
    ELSE st

MainEntries(req) ==
    [ i \in 1..Len(req.MainDeck) |->
        [id |-> req.MainDeck[i].cardId, qty |-> req.MainDeck[i].quantity, zone |-> ""] ]

CommanderEntries(req) ==
    [ i \in 1..Len(req.CommandZone) |->
        [id |-> req.CommandZone[i].cardId, qty |-> 1, zone |-> "commander"] ]

\* data.get("_parsed_request", {}) with its Deck / EventName defaults.
RequestOf(b) ==
    IF b.data.parsed_request = Nothing THEN JoinReq("") ELSE b.data.parsed_request[1]

\* Lines 239-260.
ApplyDeck(st, b) ==
    IF b.method = "EventSetDeckV2"
    THEN LET req == RequestOf(b) IN
         [st EXCEPT !.current_deck = Some(MainEntries(req) \o CommanderEntries(req)),
                    !.event_format = IF req.EventName /= "" THEN req.EventName ELSE @]
    ELSE st

\* Lines 263-267.
ApplyJoin(st, b) ==
    IF b.method = "EventJoin" /\ RequestOf(b).EventName /= ""
    THEN [st EXCEPT !.event_format = RequestOf(b).EventName]
    ELSE st

\* Lines 293-302: one pass of the loop over reservedPlayers.
RECURSIVE ApplyRoster(_, _, _)
ApplyRoster(st, reserved, i) ==
    IF i > Len(reserved) THEN st
    ELSE LET p == reserved[i]
             s1 == IF p.playerName = st.player_name
                   THEN [st EXCEPT !.player_team_id = p.teamId]
                   ELSE [st EXCEPT !.opponent_name = p.playerName]
             s2 == IF p.eventId /= "" /\ s1.event_format = ""
                   THEN [s1 EXCEPT !.event_format = p.eventId]
                   ELSE s1
         IN ApplyRoster(s2, reserved, i + 1)

\* Lines 279-291: a roster with a match identifier other than the current one.
SwitchByRoom(st, mid) ==
    IF mid /= "" /\ mid /= st.current_match_id
    THEN [SavePrevious(st) EXCEPT !.current_match_id = mid,
                                  !.current_events = << >>,
                                  !.opponent_name = NoneStr,
                                  !.player_team_id = NoTeam,
                                  !.start = st.nblk]
    ELSE st

\* Lines 304-307.
AppendFinalResult(st, room) ==
    IF room.finalMatchResult /= Nothing /\ st.current_match_id /= ""
    THEN [st EXCEPT !.current_events = Append(@, FmrEvent(st.nblk, room.finalMatchResult[1])),
                    !.sig = [ mid |-> st.current_match_id, deck |-> st.current_deck,
                              player_name |-> st.player_name,
                              format |-> st.event_format ]]
    ELSE st

\* Lines 270-307.
ApplyRoom(st, b) ==
    IF b.data.room = Nothing THEN st
    ELSE LET room == b.data.room[1]
             s1 == IF room.reservedPlayers /= << >>
                   THEN ApplyRoster(SwitchByRoom(st, room.matchId), room.reservedPlayers, 1)
                   ELSE st
         IN AppendFinalResult(s1, room)

\* Lines 310-313.
ApplyGre(st, b) ==
    IF b.data.gre = Nothing THEN st
    ELSE [st EXCEPT !.current_events =
            @ \o [i \in 1..Len(b.data.gre[1]) |-> MsgEvent(st.nblk, b.data.gre[1][i])]]

ApplyStandaloneNoReset(st, b) ==
    IF /\ b.method = "standalone"
       /\ b.data.midInPrefix
       /\ b.data.matchId /= ""
       /\ b.data.matchId /= st.current_match_id
    THEN [SavePrevious(st) EXCEPT !.current_match_id = b.data.matchId,
                                  !.start = st.nblk]
    ELSE st

\* Lines 316-327.
ApplyStandalone(st, b) ==
    IF /\ b.method = "standalone"
       /\ b.data.midInPrefix
       /\ b.data.matchId /= ""
       /\ b.data.matchId /= st.current_match_id
    THEN [SavePrevious(st) EXCEPT !.current_match_id = b.data.matchId,
                                  !.current_events = << >>,
                                  !.start = st.nblk]
    ELSE st

\* One pass of the loop "for method, data in blocks" (lines 232-327).
ApplyBlock(st, b) ==
    LET s0 == [st EXCEPT !.nblk = @ + 1, !.blocks = Append(@, b)] IN
    ApplyStandalone(ApplyGre(ApplyRoom(ApplyJoin(ApplyDeck(ApplyAuth(s0, b), b), b), b), b), b)

\* Lines 329-338: "Handle last match".
HandleLast(st) == SavePrevious([st EXCEPT !.nblk = @ + 1])

\* The for loop from block i on; each pass works on the value the previous
\* pass left (s ranges over the single state ApplyBlock returns).
RECURSIVE FoldBlocks(_, _, _)
FoldBlocks(st, blocks, i) ==
    IF i > Len(blocks) THEN st
    ELSE CHOOSE r \in { FoldBlocks(s, blocks, i + 1) : s \in { ApplyBlock(st, blocks[i]) } } : TRUE

\* Lines 234-235: auth.get raises AttributeError when the value of
\* "authenticateResponse" is not an object; the loop reaches every block.
ExtractRaises(blocks) == \E i \in 1..Len(blocks) : blocks[i].data.screenName = NotADict

\* extract_matches(blocks).
ExtractMatches(blocks) == HandleLast(FoldBlocks(InitState, blocks, 1)).matches


\* ==================================================== extract_json_blocks
\* A log text is a sequence of tokens.  "NL" is the newline; "{" and "}" are
\* the delimiters of a payload; a tag token is the text of a tag up to the
\* payload; a member token is the whole content of a payload (its members,
\* every delimiter inside it balanced).
EvtTag == "[UnityCrossThreadLogger]2/3/2026 5:04:28 PM: Match to TESTCLIENT: MatchGameRoomStateChangedEvent"
OutDeckTag == "[UnityCrossThreadLogger]==> EventSetDeckV2 "
InTag == "[UnityCrossThreadLogger]<== EventJoin(17)"
LogTag == "[UnityCrossThreadLogger]"

OutTags == { OutDeckTag }
\* A member whose string value holds one open brace.
StrOpen == "note{"

Members == { "auth", "deck", "roomA", "endA", "roomB", "endB", "gre", "gre2", "odd", StrOpen }

\* The payload a member token parses to.
Payload(tok) ==
    CASE tok = "auth" -> BAuth.data
      [] tok = "deck" -> [NoData EXCEPT !.request = Some(DeckReq("Play_Brawl_Historic"))]
      [] tok = "roomA" -> BRoom("A", Roster("Ladder"), Nothing).data
      [] tok = "endA" -> BRoom("A", Roster("Ladder"), Some(Fmr(1, WinLoss, 1))).data
      [] tok = "roomB" -> BRoom("B", Roster("Ladder"), Nothing).data
      [] tok = "endB" -> BRoom("B", Roster("Ladder"), Some(Fmr(1, WinLoss, 1))).data
      [] tok = "gre" -> BGre(<< GameState(7, << Obj(67890, 1), Obj(99999, 2) >>) >>).data
      [] tok = "gre2" -> BGre(<< GameState(3, << Obj(12345, 1) >>) >>).data
      [] tok = "odd" -> [NoData EXCEPT !.screenName = NotADict]
      [] OTHER -> NoData

\* (\w+) of the outbound pattern and of the match event pattern.
MethodOf(tok) ==
    CASE tok = OutDeckTag -> "EventSetDeckV2"
      [] tok = EvtTag -> "MatchGameRoomStateChangedEvent"
      [] tok = InTag -> "EventJoin"
      [] OTHER -> ""

\* len() of a token's text; a member is longer than the 10 of pattern 5.
TokLen(tok) ==
    CASE tok \in {"{", "}", "NL"} -> 1
      [] tok = LogTag -> 24
      [] OTHER -> 40

RECURSIVE SumLen(_, _)
SumLen(line, i) == IF i > Len(line) THEN 0 ELSE TokLen(line[i]) + SumLen(line, i + 1)

Suffix(s, i) == SubSeq(s, i, Len(s))

\* log_text.split('\n')
SplitLines(text) ==
    LET nl == { i \in 1..Len(text) : text[i] = "NL" }
        starts == {0} \cup nl
        StartOf(k) == CHOOSE p \in starts : Cardinality({ q \in starts : q < p }) = k - 1
        EndOf(p) == IF \E q \in nl : q > p
                    THEN CHOOSE q \in nl : q > p /\ \A r \in nl : r > p => q <= r
                    ELSE Len(text) + 1
    IN [ k \in 1..Cardinality(starts) |-> SubSeq(text, StartOf(k) + 1, EndOf(StartOf(k)) - 1) ]

Count(toks, t) == Cardinality({ i \in 1..Len(toks) : toks[i] = t })

\* count('{') - count('}') + count('[') - count(']'); str.count counts the
\* delimiters inside string values too.
Depth(toks) == Count(toks, "{") + Count(toks, StrOpen) - Count(toks, "}") + Count(toks, "[") - Count(toks, "]")

\* The loop of collect_json from line idx on.
RECURSIVE CollectLoop(_, _, _, _, _)
CollectLoop(result, depth, lines, idx, next_idx) ==
    IF depth > 0 /\ idx <= Len(lines)
    THEN LET r == result \o << "NL" >> \o lines[idx]
             d == depth + Depth(lines[idx])
         IN IF (idx + 1) - next_idx > SafetyLimit THEN r
            ELSE CollectLoop(r, d, lines, idx + 1, next_idx)
    ELSE result

\* collect_json(start, lines, next_idx); lines are numbered from 1 here.
CollectJson(start, lines, next_idx) ==
    CollectLoop(start, Depth(start), lines, next_idx, next_idx)

\* The tokens of a text that are not white space.
NonBlank(toks) == SelectSeq(toks, LAMBDA t : t /= "NL")

\* json.loads(json_str): the text must be one object, "{" member "}" or
\* "{" "}", with white space allowed between the tokens; Nothing stands for
\* JSONDecodeError.
JsonLoads(toks) ==
    LET T == NonBlank(toks) IN
    IF Len(T) = 3 /\ T[1] = "{" /\ T[2] \in Members /\ T[3] = "}" THEN Some(Payload(T[2]))
    ELSE IF Len(T) = 2 /\ T[1] = "{" /\ T[2] = "}" THEN Some(NoData)
    ELSE Nothing

OutPosNever(line) == 0

\* Position of the leftmost match of the outbound pattern in a line, or 0.
OutPos(line) ==
    LET I == { p \in 1..(Len(line) - 1) : line[p] \in OutTags /\ line[p + 1] = "{" } IN
    IF I = {} THEN 0 ELSE CHOOSE p \in I : \A q \in I : p <= q

HasTok(line, t) == \E p \in 1..Len(line) : line[p] = t

StartsWith(line, t) == Len(line) > 0 /\ line[1] = t

\* Lines 142-146: "request" is decoded into "_parsed_request".
WithParsedRequest(data) ==
    IF data.request /= Nothing THEN [data EXCEPT !.parsed_request = data.request] ELSE data

\* Lines 203-209.
TagByContent(data) ==
    IF data.gre /= Nothing THEN "GreToClientEvent"
    ELSE IF data.room /= Nothing THEN "MatchGameRoomStateChangedEvent"
    ELSE IF data.screenName /= NoneStr THEN "AuthenticateResponse"
    ELSE "standalone"

\* The blocks one line starts: lines 132-214 for line number i.
BlocksAt(lines, i) ==
    LET line == lines[i]
        nextIsJson == i + 1 <= Len(lines) /\ StartsWith(lines[i + 1], "{")
        tagged(method) ==
            IF nextIsJson
            THEN LET d == JsonLoads(CollectJson(lines[i + 1], lines, i + 2)) IN
                 IF d /= Nothing THEN << Block(method, d[1]) >> ELSE << >>
            ELSE << >>
    IN
    IF OutPos(line) /= 0
    THEN LET d == JsonLoads(CollectJson(Suffix(line, OutPos(line) + 1), lines, i + 1)) IN
         IF d /= Nothing
         THEN << Block(MethodOf(line[OutPos(line)]), WithParsedRequest(d[1])) >>
         ELSE << >>
    ELSE IF HasTok(line, EvtTag) THEN tagged(MethodOf(EvtTag))
    ELSE IF HasTok(line, InTag) /\ ~(line[1] \in OutTags) THEN tagged(MethodOf(InTag))
    ELSE IF StartsWith(line, LogTag) /\ Len(line) > 1 /\ line[2] = "{"
    THEN LET d == JsonLoads(CollectJson(Suffix(line, 2), lines, i + 1)) IN
         IF d /= Nothing THEN << Block("standalone", d[1]) >> ELSE << >>
    ELSE IF StartsWith(line, "{") /\ SumLen(line, 1) > 10
    THEN LET d == JsonLoads(CollectJson(line, lines, i + 1)) IN
         IF d /= Nothing THEN << Block(TagByContent(d[1]), d[1]) >> ELSE << >>
    ELSE << >>

RECURSIVE ScanLines(_, _)
ScanLines(lines, i) ==
    IF i > Len(lines) THEN << >> ELSE BlocksAt(lines, i) \o ScanLines(lines, i + 1)

\* extract_json_blocks(log_text)
ExtractJsonBlocks(log_text) == ScanLines(SplitLines(log_text), 1)

\* ========================================================== store_matches
\* The connection: the rows of arena_parsed_matches (match_id is UNIQUE) and
\* sqlite's total_changes, the number of rows changed since it was opened.
EmptyDb == [rows |-> {}, total_changes |-> 0]

HasRow(db, match_id) == \E r \in db.rows : r.match_id = match_id

\* INSERT OR IGNORE of one match.
InsertOrReplace(db, match) == [rows |-> { r \in db.rows : r.match_id /= match.match_id } \cup {match}, total_changes |-> db.total_changes + 1]
InsertOrIgnore(db, match) ==
    IF HasRow(db, match.match_id) THEN db
    ELSE [rows |-> db.rows \cup {match}, total_changes |-> db.total_changes + 1]

\* store_matches from match i on: res is [db, stored].
RECURSIVE StoreFrom(_, _, _)
StoreFrom(res, matches_, i) ==
    IF i > Len(matches_) THEN res
    ELSE LET d == InsertOrIgnore(res.db, matches_[i]) IN
         StoreFrom([db |-> d,
                    stored |-> IF d.total_changes /= 0 THEN res.stored + 1 ELSE res.stored],
                   matches_, i + 1)

\* store_matches(conn, matches): the connection after it and the count returned.
StoreMatches(db, matches_) == StoreFrom([db |-> db, stored |-> 0], matches_, 1)

\* ==================================================== process_new_content
\* process_new_content(conn, content, buffer): the buffer (joined) and the
\* connection after the call, the count returned and the blocks extracted.
\* Lines 99-109: found is what extract_matches returned, res what
\* store_matches did with it.
Processed(db, full_text, blocks, found, res) ==
    IF found = << >> THEN [buffer |-> full_text, db |-> db, new_count |-> 0, blocks |-> blocks]
    ELSE [ buffer |-> IF res.stored > 0 THEN << >> ELSE full_text,
           db |-> res.db, new_count |-> res.stored, blocks |-> blocks ]

Matched(db, full_text, blocks, found) == Processed(db, full_text, blocks, found, StoreMatches(db, found))

\* Lines 94-98: blocks is what extract_json_blocks returned.
Extracted(db, full_text, blocks) ==
    IF blocks = << >> THEN [buffer |-> full_text, db |-> db, new_count |-> 0, blocks |-> blocks]
    ELSE Matched(db, full_text, blocks, ExtractMatches(blocks))

ProcessNewContent(db, content, buf) == Extracted(db, buf \o content, ExtractJsonBlocks(buf \o content))

\* ================================================== the reconstructor fold
\* State of one replay of extract_matches, block by block.  hist holds the
\* history fields of the fold state; rpc is "loop" inside the for loop and
\* "done" after the return.
VARIABLES matches, current_deck, current_match_id, current_events,
          player_name, player_team_id, opponent_name, event_format,
          hist, rpc

\* State of the live path: the carry-over buffer of main (joined), the
\* connection, and the history variable seen (every block handed to
\* extract_matches so far).
VARIABLES buffer, conn, seen

\* main's variable new: what the last process_new_content returned.
VARIABLES new_count

\* The chunked feed: the log text, the number of tokens handed over so far,
\* the number of chunks handed over and the size of the first chunk.
VARIABLES text, fed, nchunks, split

\* The watched path and the files it has named: files[i] is the content of
\* the file with identity (st_ino) i, path_ino the identity the path names
\* (NoFile when the path does not exist), next_ino the next fresh identity.
\* nvendor counts the vendor's steps.
VARIABLES files, path_ino, next_ino, nvendor

\* tail_file and the loop of main around it: tpc is the position in the
\* code, fh the identity of the file the open handle f refers to (NoFile
\* when there is none), last_pos and last_inode the cursor, chunk the
\* content yielded to main and not yet processed.
VARIABLES tpc, fh, last_pos, last_inode, chunk

\* History variables of the watch: began (the first seek to the end was
\* done), reopen (tail_file returned on a rotation and the handle opened
\* since has not yet recorded the identity), yielded (for every chunk
\* yielded, the identity of the file read, the identity the cursor held
\* and whether the read followed the reset of lines 64-66), appendedIds (the matches written to the path since the watch
\* began and not truncated away).
VARIABLES began, reopen, yielded, appendedIds

\* History variables of a watch without rotation and truncation: plain (the
\* vendor has only appended so far), start_pos (the offset the first seek to
\* the end recorded), out (the chunks yielded while plain, concatenated).
VARIABLES plain, start_pos, out

\* History variables of the bytes yielded: got (for every byte tail_file
\* has yielded, the identity of its file and its offset) and cut (the
\* identities of the files that were truncated).
VARIABLES got, cut

\* One use of _normalize_format: the label it is given, the name it
\* returns, the name it returns for that name, and the position (npc).
VARIABLES label, display_format, display_again, npc

\* One scan of extract_json_blocks: the lines of the text, the number of
\* the line the loop is at (from 1), the blocks appended so far and the
\* position in the code (spc); the locals result, depth and idx of the
\* collect_json call in progress.
VARIABLES scan_lines, scan_i, scan_blocks, spc
VARIABLES col_result, col_depth, col_idx

rvars == << matches, current_deck, current_match_id, current_events,
            player_name, player_team_id, opponent_name, event_format,
            hist, rpc >>
lvars == << buffer, conn, seen, new_count >>
cvars == << text, fed, nchunks, split >>
fvars == << files, path_ino, next_ino, nvendor >>
tvars == << tpc, fh, last_pos, last_inode, chunk >>
gvars == << began, reopen, yielded, appendedIds >>
pvars == << plain, start_pos, out >>
dvars == << got, cut >>
wvars == << fvars, tvars, gvars, pvars, dvars >>
uvars == << label, display_format, display_again, npc >>
svars == << scan_lines, scan_i, scan_blocks, spc, col_result, col_depth, col_idx >>
vars == << rvars, lvars, cvars, wvars, uvars, svars >>

\* The variables of a part of the model that a specification does not use.
RIdle ==
    /\ matches = << >> /\ current_deck = Nothing /\ current_match_id = ""
    /\ current_events = << >> /\ player_name = NoneStr /\ player_team_id = NoTeam
    /\ opponent_name = NoneStr /\ event_format = "" /\ rpc = "idle"
    /\ hist = [calls |-> << >>, nblk |-> 0, start |-> 0, sig |-> NoSig, blocks |-> << >>]
LInit == buffer = << >> /\ conn = EmptyDb /\ seen = {} /\ new_count = 0
CIdle == text = << >> /\ fed = 0 /\ nchunks = 0 /\ split = 0
WIdle ==
    /\ files = << >> /\ path_ino = NoFile /\ next_ino = 1 /\ nvendor = 0
    /\ tpc = "idle" /\ fh = NoFile /\ last_pos = 0 /\ last_inode = NoFile /\ chunk = << >>
    /\ began = FALSE /\ reopen = FALSE /\ yielded = {} /\ appendedIds = {}
    /\ plain = FALSE /\ start_pos = 0 /\ out = << >>
    /\ got = {} /\ cut = {}

NIdle == label = << >> /\ display_format = << >> /\ display_again = << >> /\ npc = "idle"
SIdle ==
    /\ scan_lines = << >> /\ scan_i = 0 /\ scan_blocks = << >> /\ spc = "idle"
    /\ col_result = << >> /\ col_depth = 0 /\ col_idx = 0

St ==
    [ matches |-> matches, current_deck |-> current_deck,
      current_match_id |-> current_match_id, current_events |-> current_events,
      player_name |-> player_name, player_team_id |-> player_team_id,
      opponent_name |-> opponent_name, event_format |-> event_format,
      calls |-> hist.calls, nblk |-> hist.nblk, start |-> hist.start,
      sig |-> hist.sig, blocks |-> hist.blocks ]

SetSt(s) ==
    /\ matches' = s.matches
    /\ current_deck' = s.current_deck
    /\ current_match_id' = s.current_match_id
    /\ current_events' = s.current_events
    /\ player_name' = s.player_name
    /\ player_team_id' = s.player_team_id
    /\ opponent_name' = s.opponent_name
    /\ event_format' = s.event_format
    /\ hist' = [ calls |-> s.calls, nblk |-> s.nblk, start |-> s.start,
                sig |-> s.sig, blocks |-> s.blocks ]

FmrChoices ==
    { Nothing, Some(Fmr(1, WinLoss, 1)), Some(Fmr(1, WinLoss, 2)) }

\* The blocks a replay is fed: what extract_json_blocks can hand over.
RBlocks ==
    { BAuth, BDeck("Play_Brawl_Historic"), BJoin("Ladder"),
      BGre(<< GameState(7, << Obj(67890, 1), Obj(99999, 2) >>) >>),
      BStandalone("C"),
      BRoom("A", Roster("Ladder"), Some(Fmr(1, Invalid, NoTeam))),
      BRoom("A", Roster("Ladder"), Some(FmrGameOnly)),
      BRoom("A", << >>, Some(Fmr(2, Draw, NoTeam))),
      BDual("B", Some(Fmr(1, WinLoss, 1)), "C") }
    \cup { BRoom(m, Roster("Ladder"), f) : m \in {"A", "B"}, f \in FmrChoices }

RInit ==
    /\ matches = << >>
    /\ current_deck = Nothing
    /\ current_match_id = ""
    /\ current_events = << >>
    /\ player_name = NoneStr
    /\ player_team_id = NoTeam
    /\ opponent_name = NoneStr
    /\ event_format = ""
    /\ hist = [calls |-> << >>, nblk |-> 0, start |-> 0, sig |-> NoSig, blocks |-> << >>]
    /\ rpc = "loop"
    /\ LInit /\ CIdle /\ WIdle
    /\ NIdle /\ SIdle

\* One iteration of the for loop on the next block of the stream.
Step ==
    /\ rpc = "loop"
    /\ hist.nblk < MaxBlocks
    /\ \E b \in RBlocks : SetSt(ApplyBlock(St, b))
    /\ rpc' = "loop"
    /\ UNCHANGED << lvars, cvars, wvars >>
    /\ UNCHANGED << uvars, svars >>

\* The stream ends: the last match is handled and extract_matches returns.
Finish ==
    /\ rpc = "loop"
    /\ SetSt(HandleLast(St))
    /\ rpc' = "done"
    /\ UNCHANGED << lvars, cvars, wvars >>
    /\ UNCHANGED << uvars, svars >>

RNext == Step \/ Finish

SpecR == RInit /\ [][RNext]_vars


\* ======================================================= the chunked feed
\* A log text fed to process_new_content in at most MaxChunks chunks.
Entry(tag, member) == << tag, "NL", "{", member, "}", "NL" >>

\* The entries of a known-good log: a tagged line and its payload line, or
\* an outbound call with its inline payload.
Entries ==
    { Entry(EvtTag, m) : m \in {"auth", "roomA", "endA", "endB", "gre"} }
    \cup { << OutDeckTag, "{", "deck", "}", "NL" >> }

RECURSIVE TextsOf(_)
TextsOf(n) ==
    IF n = 0 THEN { << >> }
    ELSE TextsOf(n - 1) \cup { t \o e : t \in TextsOf(n - 1), e \in Entries }

CInit ==
    /\ text \in TextsOf(MaxEntries)
    /\ fed = 0 /\ nchunks = 0 /\ split = 0
    /\ LInit /\ RIdle /\ WIdle
    /\ NIdle /\ SIdle

\* main hands the next k tokens to process_new_content.
FeedChunk(k) ==
    \E r \in { ProcessNewContent(conn, SubSeq(text, fed + 1, fed + k), buffer) } :
    /\ buffer' = r.buffer
    /\ conn' = r.db
    /\ seen' = seen \cup Range(r.blocks)
    /\ new_count' = r.new_count
    /\ fed' = fed + k
    /\ nchunks' = nchunks + 1
    /\ split' = IF nchunks = 0 THEN k ELSE split
    /\ UNCHANGED << text, rvars, wvars >>
    /\ UNCHANGED << uvars, svars >>

\* A chunk that is not the last one: any non-empty part of what is left.
FeedPart ==
    /\ nchunks + 1 < MaxChunks
    /\ \E k \in 1..(Len(text) - fed - 1) : FeedChunk(k)

\* The last chunk: all that is left.
FeedRest ==
    /\ nchunks < MaxChunks
    /\ fed < Len(text)
    /\ FeedChunk(Len(text) - fed)

CNext == FeedPart \/ FeedRest

SpecChunk == CInit /\ [][CNext]_vars

\* ================================================================ replays
\* Logs of the shape of SAMPLE_LOG: the authentication and one deck
\* submission, the start of match A, game states, the end of match A.
Games ==
    { Entry(EvtTag, "gre"),
      Entry(EvtTag, "gre") \o Entry(EvtTag, "gre2"),
      Entry(EvtTag, "gre2") \o Entry(EvtTag, "gre") }

DeckEntry == << OutDeckTag, "{", "deck", "}", "NL" >>

SampleLogs ==
    { p \o Entry(EvtTag, "roomA") \o g \o Entry(EvtTag, "endA") :
        p \in { Entry(EvtTag, "auth") \o DeckEntry, DeckEntry \o Entry(EvtTag, "auth") },
        g \in Games }

\* Structured blocks that json.loads rejects: cut before the closing brace,
\* with or without the end of the line, with a brace too many, with an
\* open bracket.
Corrupted ==
    { << EvtTag, "NL", "{", "roomA", "NL" >>,
      << EvtTag, "NL", "{", "endB" >>,
      << EvtTag, "NL", "{", "NL" >>,
      << EvtTag, "NL", "{", "endA", "}", "}", "NL" >>,
      << EvtTag, "NL", "{", "[", "gre", "}", "NL" >>,
      << OutDeckTag, "{", "deck", "NL" >>,
      << OutDeckTag, "{", "deck" >>,
      << "{", "gre", "NL" >>,
      << "{" >> }

FirstMatch ==
    { Entry(EvtTag, "auth") \o Entry(EvtTag, "endA"),
      DeckEntry \o Entry(EvtTag, "endA"),
      Entry(EvtTag, "roomA") \o Entry(EvtTag, "gre") \o Entry(EvtTag, "endA") }

SecondMatch ==
    { Entry(EvtTag, "endB"),
      DeckEntry \o Entry(EvtTag, "endB"),
      Entry(EvtTag, "roomB") \o Entry(EvtTag, "gre2") \o Entry(EvtTag, "endB") }

\* Two well-formed matches with a corrupted block between them.
CorruptLogs == { a \o c \o b : a \in FirstMatch, c \in Corrupted, b \in SecondMatch }

\* Lines that match more than one of the five patterns of the scan, each
\* followed by a payload line.
MixedLines ==
    { << InTag, OutDeckTag, "{", "deck", "}" >>,
      << EvtTag, OutDeckTag, "{", "deck", "}" >>,
      << OutDeckTag, "{", "deck", "}", InTag >>,
      << EvtTag, InTag >>,
      << InTag, EvtTag >>,
      << LogTag, "{", "auth", "}", InTag >>,
      << LogTag, "{", "endA", "}", EvtTag >>,
      << "{", "gre", "}", InTag >>,
      << "{", "auth", "}", EvtTag >>,
      << LogTag, "{", "endA", "}" >> }

MixedLogs ==
    { l \o << "NL" >> \o << "{", m, "}", "NL" >> \o Entry(EvtTag, "endA") :
        l \in MixedLines, m \in {"auth", "roomA", "gre"} }

\* main of arena_log_parser.py on one log file.
BInit ==
    /\ text \in SampleLogs \cup CorruptLogs \cup MixedLogs
    /\ fed = 0 /\ nchunks = 0 /\ split = 0
    /\ matches = << >> /\ current_deck = Nothing /\ current_match_id = ""
    /\ current_events = << >> /\ player_name = NoneStr /\ player_team_id = NoTeam
    /\ opponent_name = NoneStr /\ event_format = "" /\ rpc = "parse"
    /\ hist = [calls |-> << >>, nblk |-> 0, start |-> 0, sig |-> NoSig, blocks |-> << >>]
    /\ LInit /\ WIdle
    /\ NIdle /\ SIdle

\* Lines 530-543: the blocks of the text are extracted and folded.
BParse ==
    /\ rpc = "parse"
    /\ LET blocks == ExtractJsonBlocks(text) IN
       /\ SetSt(HandleLast(FoldBlocks(InitState, blocks, 1)))
       /\ seen' = Range(blocks)
    /\ fed' = Len(text)
    /\ rpc' = "store"
    /\ UNCHANGED << buffer, conn, new_count, text, nchunks, split, wvars >>
    /\ UNCHANGED << uvars, svars >>

\* Lines 545-570: the matches, when there are any, are stored.
BStore ==
    /\ rpc = "store"
    /\ matches /= << >>
    /\ LET res == StoreMatches(conn, matches) IN
       /\ conn' = res.db
       /\ new_count' = res.stored
    /\ rpc' = "done"
    /\ UNCHANGED << matches, current_deck, current_match_id, current_events, player_name,
                    player_team_id, opponent_name, event_format, hist,
                    buffer, seen, cvars, wvars >>
    /\ UNCHANGED << uvars, svars >>

BNext == BParse \/ BStore

SpecBatch == BInit /\ [][BNext]_vars

\* The match a member token belongs to.
MatchOfMember(tok) ==
    CASE tok \in {"roomA", "endA"} -> "A"
      [] tok \in {"roomB", "endB"} -> "B"
      [] OTHER -> ""

\* =============================================== uses of _normalize_format
\* The raw labels: up to MaxPieces pieces of event identifiers, in any
\* order and case, joined.
PieceWords ==
    { "Play_", "Constructed", "Brawl", "BRAWL", "Bra", "wl", "Historic", "historic",
      "Standard", "Ladder", "Explorer", "Timeless", "Draft", "Sealed", "Alchemy",
      "Quick", " ", "_" }

RECURSIVE LabelsOf(_)
LabelsOf(n) ==
    IF n = 0 THEN { << >> }
    ELSE LabelsOf(n - 1) \cup { t \o Spell(w) : t \in LabelsOf(n - 1), w \in PieceWords }

NInit ==
    /\ label \in LabelsOf(MaxPieces) \ { << >> }
    /\ display_format = << >> /\ display_again = << >> /\ npc = "raw"
    /\ LInit /\ RIdle /\ CIdle /\ WIdle /\ SIdle

\* build_match line 396: display_format = _normalize_format(event_format).
Normalize ==
    /\ npc = "raw"
    /\ display_format' = NormalizeText(label)
    /\ npc' = "shown"
    /\ UNCHANGED << label, display_again, rvars, lvars, cvars, wvars, svars >>

\* The name returned is normalized in its turn.
Renormalize ==
    /\ npc = "shown"
    /\ display_again' = NormalizeText(display_format)
    /\ npc' = "again"
    /\ UNCHANGED << label, display_format, rvars, lvars, cvars, wvars, svars >>

NNext == Normalize \/ Renormalize

SpecFormat == NInit /\ [][NNext]_vars

\* ================================================ one scan, line by line
\* A payload that opens on the first line, n further lines, all blank but
\* for a closing brace on line closeAt (0: the payload is never closed).
LongLines(first, n, closeAt) ==
    << first >> \o [ k \in 1..n |-> IF k = closeAt THEN << "}" >> ELSE << >> ]

ScanInputs ==
    { LongLines(<< "{", "endA" >>, n, c) : n \in 1..MaxOver, c \in 0..MaxOver }
    \cup { LongLines(<< "{", "endA" >>, SafetyLimit + MaxOver, c) :
             c \in {0} \cup ((SafetyLimit - 1)..(SafetyLimit + MaxOver)) }
    \cup { LongLines(<< "{", StrOpen, "}" >>, n, 0) :
             n \in {1, SafetyLimit - 1, SafetyLimit, SafetyLimit + MaxOver} }

SInit ==
    /\ scan_lines \in ScanInputs
    /\ scan_i = 1
    /\ scan_blocks = << >>
    /\ spc = "scan"
    /\ col_result = << >> /\ col_depth = 0 /\ col_idx = 0
    /\ LInit /\ RIdle /\ CIdle /\ WIdle /\ NIdle

\* Lines 196-197: the line is a bare payload line (and matches none of the
\* patterns tried before).
IsBare(line) ==
    /\ OutPos(line) = 0 /\ ~HasTok(line, EvtTag) /\ ~HasTok(line, InTag)
    /\ ~StartsWith(line, LogTag)
    /\ StartsWith(line, "{") /\ SumLen(line, 1) > 10

\* Lines 131-198 and 84-88: the loop takes the next line; a bare payload
\* line starts collect_json, any other line is handled in one step.
ScanLine ==
    /\ spc = "scan"
    /\ scan_i <= Len(scan_lines)
    /\ IF IsBare(scan_lines[scan_i])
       THEN /\ col_result' = scan_lines[scan_i]
            /\ col_depth' = Depth(scan_lines[scan_i])
            /\ col_idx' = scan_i + 1
            /\ spc' = "collect"
            /\ UNCHANGED << scan_i, scan_blocks >>
       ELSE /\ scan_blocks' = scan_blocks \o BlocksAt(scan_lines, scan_i)
            /\ scan_i' = scan_i + 1
            /\ UNCHANGED << spc, col_result, col_depth, col_idx >>
    /\ UNCHANGED << scan_lines, rvars, lvars, cvars, wvars, uvars >>

\* Lines 89-96: one pass of the loop of collect_json; next_idx is
\* scan_i + 1.  The break of line 96 and the end of the loop lead to the
\* return of line 98.
CollectStep ==
    /\ spc = "collect"
    /\ IF col_depth > 0 /\ col_idx <= Len(scan_lines)
       THEN /\ col_result' = col_result \o << "NL" >> \o scan_lines[col_idx]
            /\ col_depth' = col_depth + Depth(scan_lines[col_idx])
            /\ col_idx' = col_idx + 1
            /\ spc' = IF (col_idx + 1) - (scan_i + 1) > SafetyLimit THEN "parse" ELSE "collect"
       ELSE /\ spc' = "parse"
            /\ UNCHANGED << col_result, col_depth, col_idx >>
    /\ UNCHANGED << scan_lines, scan_i, scan_blocks, rvars, lvars, cvars, wvars, uvars >>

\* Lines 199-214: json.loads of what collect_json returned; the block is
\* appended when it parses, and i advances by one.
ParseCollected ==
    /\ spc = "parse"
    /\ scan_blocks' = IF JsonLoads(col_result) /= Nothing
                      THEN Append(scan_blocks, Block(TagByContent(JsonLoads(col_result)[1]), JsonLoads(col_result)[1]))
                      ELSE scan_blocks
    /\ scan_i' = scan_i + 1
    /\ spc' = "scan"
    /\ UNCHANGED << scan_lines, col_result, col_depth, col_idx, rvars, lvars, cvars, wvars, uvars >>

SNext == ScanLine \/ CollectStep \/ ParseCollected

SpecScan == SInit /\ [][SNext]_vars

\* ============================================================== the watch
\* tail_file, main and the vendor process that writes the watched file.
\* One step of tail_file is one system call or one statement between two
\* of them; the vendor may act between any two steps.  A file created under
\* the path always gets a fresh identity (the reuse of an inode number by
\* the file system is not modelled), and a file that was moved away stays
\* readable through a handle opened before.
WEntries == { Entry(EvtTag, m) : m \in {"auth", "endA", "endB", "odd"} }

IdsOf(toks) == { MatchOfMember(toks[i]) : i \in 1..Len(toks) } \ {""}

WInit ==
    /\ files \in { [i \in 1..(MaxVendor + 1) |-> IF i = 1 THEN c ELSE << >>] :
                     c \in { << >>, Entry(EvtTag, "auth") } }
    /\ path_ino = 1 /\ next_ino = 2 /\ nvendor = 0
    /\ tpc = "start" /\ fh = NoFile /\ last_pos = 0 /\ last_inode = NoFile
    /\ chunk = << >>
    /\ began = FALSE /\ reopen = FALSE /\ yielded = {} /\ appendedIds = {}
    /\ plain = TRUE /\ start_pos = 0 /\ out = << >>
    /\ got = {} /\ cut = {}
    /\ LInit /\ RIdle /\ CIdle
    /\ NIdle /\ SIdle

\* ---- the vendor
\* The vendor appends an entry to the file the path names.
VAppend ==
    /\ path_ino /= NoFile
    /\ nvendor < MaxVendor
    /\ \E e \in WEntries :
          /\ files' = [files EXCEPT ![path_ino] = @ \o e]
          /\ appendedIds' = IF began THEN appendedIds \cup IdsOf(e) ELSE appendedIds
    /\ nvendor' = nvendor + 1
    /\ UNCHANGED << path_ino, next_ino, tvars, began, reopen, yielded,
                    rvars, lvars, cvars >>
    /\ UNCHANGED pvars
    /\ UNCHANGED dvars
    /\ UNCHANGED << uvars, svars >>

\* Rotation in one step: the path names a new, empty file (rename over it).
VReplace ==
    /\ path_ino /= NoFile
    /\ nvendor < MaxVendor
    /\ nvendor' = nvendor + 1
    /\ path_ino' = next_ino
    /\ next_ino' = next_ino + 1
    /\ UNCHANGED << files, tvars, gvars, rvars, lvars, cvars >>
    /\ plain' = FALSE /\ out' = << >> /\ UNCHANGED start_pos
    /\ UNCHANGED dvars
    /\ UNCHANGED << uvars, svars >>

\* Rotation in two steps: the file is moved away ...
VDelete ==
    /\ path_ino /= NoFile
    /\ nvendor < MaxVendor
    /\ nvendor' = nvendor + 1
    /\ path_ino' = NoFile
    /\ UNCHANGED << files, next_ino, tvars, gvars, rvars, lvars, cvars >>
    /\ plain' = FALSE /\ out' = << >> /\ UNCHANGED start_pos
    /\ UNCHANGED dvars
    /\ UNCHANGED << uvars, svars >>

\* ... and a new, empty file is created under the path.
VCreate ==
    /\ path_ino = NoFile
    /\ nvendor < MaxVendor
    /\ nvendor' = nvendor + 1
    /\ path_ino' = next_ino
    /\ next_ino' = next_ino + 1
    /\ UNCHANGED << files, tvars, gvars, rvars, lvars, cvars >>
    /\ plain' = FALSE /\ out' = << >> /\ UNCHANGED start_pos
    /\ UNCHANGED dvars
    /\ UNCHANGED << uvars, svars >>

\* The file is truncated in place.
VTruncate ==
    /\ path_ino /= NoFile
    /\ files[path_ino] /= << >>
    /\ nvendor < MaxVendor
    /\ files' = [files EXCEPT ![path_ino] = << >>]
    /\ nvendor' = nvendor + 1
    /\ appendedIds' = {}
    /\ UNCHANGED << path_ino, next_ino, tvars, began, reopen, yielded,
                    rvars, lvars, cvars >>
    /\ plain' = FALSE /\ out' = << >> /\ UNCHANGED start_pos
    /\ cut' = cut \cup {path_ino}
    /\ UNCHANGED got
    /\ UNCHANGED << uvars, svars >>

\* ---- tail_file
\* main calls tail_file, which opens the path (lines 157, 40).  When the
\* path does not exist the exception ends tail_file (line 80) and main
\* calls it again.
TOpen ==
    /\ tpc = "start"
    /\ IF path_ino = NoFile
       THEN UNCHANGED << tpc, fh >>
       ELSE fh' = path_ino /\ tpc' = "opened"
    /\ UNCHANGED << last_pos, last_inode, chunk, fvars, gvars, rvars, lvars, cvars >>
    /\ UNCHANGED pvars
    /\ UNCHANGED dvars
    /\ UNCHANGED << uvars, svars >>

\* Lines 42-43: f.seek(0, 2); last_pos = f.tell().
TSeekEnd ==
    /\ tpc = "opened"
    /\ last_pos' = Len(files[fh])
    /\ tpc' = "seeked"
    /\ began' = TRUE
    /\ UNCHANGED << fh, last_inode, chunk, fvars, reopen, yielded, appendedIds,
                    rvars, lvars, cvars >>
    /\ start_pos' = IF began THEN start_pos ELSE Len(files[fh])
    /\ UNCHANGED << plain, out >>
    /\ UNCHANGED dvars
    /\ UNCHANGED << uvars, svars >>

\* Line 44: last_inode = os.stat(path).st_ino; FileNotFoundError ends
\* tail_file through line 80.
TStatFirst ==
    /\ tpc = "seeked"
    /\ IF path_ino = NoFile
       THEN fh' = NoFile /\ tpc' = "start" /\ UNCHANGED last_inode
       ELSE last_inode' = path_ino /\ tpc' = "loop" /\ UNCHANGED fh
    /\ reopen' = FALSE
    /\ UNCHANGED << last_pos, chunk, fvars, began, yielded, appendedIds,
                    rvars, lvars, cvars >>
    /\ UNCHANGED pvars
    /\ UNCHANGED dvars
    /\ UNCHANGED << uvars, svars >>

\* Lines 51-59: the rotation check at the top of the loop.
TCheckInode ==
    /\ tpc = "loop"
    /\ IF path_ino = NoFile
       THEN UNCHANGED << tpc, fh, reopen >>
       ELSE IF path_ino /= last_inode
       THEN fh' = NoFile /\ tpc' = "start" /\ reopen' = TRUE
       ELSE tpc' = "size" /\ UNCHANGED << fh, reopen >>
    /\ UNCHANGED << last_pos, last_inode, chunk, fvars, began, yielded, appendedIds,
                    rvars, lvars, cvars >>
    /\ UNCHANGED pvars
    /\ UNCHANGED dvars
    /\ UNCHANGED << uvars, svars >>

\* Lines 63-66: the offset after the truncation check.
AfterSizeCheckKeep(current_size, pos) == pos
AfterSizeCheck(current_size, pos) == IF current_size < pos THEN 0 ELSE pos

\* Lines 62-66: the truncation check; os.path.getsize raises when the path
\* does not exist, which ends tail_file through line 80.  After the branch
\* of lines 64-66 the position in the code is "reread".
TCheckSize ==
    /\ tpc = "size"
    /\ IF path_ino = NoFile
       THEN fh' = NoFile /\ tpc' = "start" /\ UNCHANGED last_pos
       ELSE /\ last_pos' = AfterSizeCheck(Len(files[path_ino]), last_pos)
            /\ tpc' = IF Len(files[path_ino]) < last_pos THEN "reread" ELSE "read"
            /\ UNCHANGED fh
    /\ UNCHANGED << last_inode, chunk, fvars, gvars, rvars, lvars, cvars >>
    /\ UNCHANGED pvars
    /\ UNCHANGED dvars
    /\ UNCHANGED << uvars, svars >>

\* Lines 69-70: f.seek(last_pos); f.read().
ReadFromStart(file, pos) == file
ReadFrom(file, pos) == SubSeq(file, pos + 1, Len(file))

\* Lines 69-76: seek, read to the end of the handle's file, tell; a
\* non-empty content is yielded to main, an empty one leads to the sleep.
TRead ==
    /\ tpc \in {"read", "reread"}
    /\ Len(buffer) <= MaxBuffer
    /\ LET new_content == ReadFrom(files[fh], last_pos) IN
       /\ last_pos' = IF last_pos <= Len(files[fh]) THEN Len(files[fh]) ELSE last_pos
       /\ IF new_content /= << >>
          THEN /\ chunk' = new_content
               /\ tpc' = "process"
               /\ yielded' = yielded \cup { [handle |-> fh, cursor |-> last_inode,
                                             reset |-> tpc = "reread"] }
          ELSE /\ tpc' = "loop"
               /\ UNCHANGED << chunk, yielded >>
    /\ UNCHANGED << fh, last_inode, fvars, began, reopen, appendedIds, rvars, lvars, cvars >>
    /\ out' = IF plain THEN out \o ReadFrom(files[fh], last_pos) ELSE out
    /\ UNCHANGED << plain, start_pos >>
    /\ got' = got \cup { << fh, k >> : k \in (last_pos + 1)..Len(files[fh]) }
    /\ UNCHANGED cut
    /\ UNCHANGED << uvars, svars >>

\* Lines 158-164 and 76: main processes the yielded content, then
\* tail_file sleeps and loops.
TProcess ==
    /\ tpc = "process"
    /\ ~ExtractRaises(ExtractJsonBlocks(buffer \o chunk))
    /\ LET r == ProcessNewContent(conn, chunk, buffer) IN
       /\ buffer' = r.buffer
       /\ conn' = r.db
       /\ seen' = seen \cup Range(r.blocks)
       /\ new_count' = r.new_count
    /\ chunk' = << >>
    /\ tpc' = "loop"
    /\ UNCHANGED << fh, last_pos, last_inode, fvars, gvars, rvars, cvars >>
    /\ UNCHANGED pvars
    /\ UNCHANGED dvars
    /\ UNCHANGED << uvars, svars >>

\* Line 158: extract_matches raises inside process_new_content.  main
\* catches KeyboardInterrupt only (lines 165-168): the exception leaves the
\* loop, the connection is closed and the process ends.
TExtractRaises ==
    /\ tpc = "process"
    /\ ExtractRaises(ExtractJsonBlocks(buffer \o chunk))
    /\ buffer' = buffer \o chunk
    /\ seen' = seen \cup Range(ExtractJsonBlocks(buffer \o chunk))
    /\ tpc' = "ended"
    /\ UNCHANGED << conn, new_count, fh, last_pos, last_inode, chunk, fvars, gvars, rvars, cvars >>
    /\ UNCHANGED pvars
    /\ UNCHANGED dvars
    /\ UNCHANGED << uvars, svars >>

\* Line 158: the INSERT of store_matches raises an error other than
\* IntegrityError (the database stays locked by the application for longer
\* than the busy timeout); store_matches does not catch it, nor does main.
TStoreRaises ==
    /\ tpc = "process"
    /\ ~ExtractRaises(ExtractJsonBlocks(buffer \o chunk))
    /\ ExtractMatches(ExtractJsonBlocks(buffer \o chunk)) /= << >>
    /\ buffer' = buffer \o chunk
    /\ seen' = seen \cup Range(ExtractJsonBlocks(buffer \o chunk))
    /\ tpc' = "ended"
    /\ UNCHANGED << conn, new_count, fh, last_pos, last_inode, chunk, fvars, gvars, rvars, cvars >>
    /\ UNCHANGED pvars
    /\ UNCHANGED dvars
    /\ UNCHANGED << uvars, svars >>

WNext ==
    \/ VAppend \/ VReplace \/ VDelete \/ VCreate \/ VTruncate
    \/ TOpen \/ TSeekEnd \/ TStatFirst \/ TCheckInode \/ TCheckSize \/ TRead \/ TProcess
    \/ TExtractRaises \/ TStoreRaises

SpecWatch == WInit /\ [][WNext]_vars

\* ------------------------------------------- claims on the reconstructor
Calls == Range(hist.calls)
Emitted == { c \in Calls : c.rec /= Nothing }

\* The match-scope entries of the terminal signals among some events, in order.
MatchEntries(events) ==
    LET T == SelectSeq(events, LAMBDA e : e.fmr /= Nothing /\ FirstMatchScope(e.fmr[1].resultList) /= 0)
    IN [ i \in 1..Len(T) |-> T[i].fmr[1].resultList[FirstMatchScope(T[i].fmr[1].resultList)] ]

LastEntry(events) == MatchEntries(events)[Len(MatchEntries(events))]

\* C1: a record has result "win" only if the player's team identifier was
\* resolved and is the winning team of a match-scope terminal result of that
\* match; when the team identifier is unresolved and the match's terminal
\* signal (the latest match-scope entry) is a win/loss, the result is "loss".
C1_WinOnlyWhenResolved ==
    \A c \in Emitted :
        /\ c.rec[1].result = "win" =>
              /\ c.team /= NoTeam
              /\ \E r \in Range(MatchEntries(c.events)) :
                    r.result /= Draw /\ r.winningTeamId = c.team
        /\ (c.team = NoTeam /\ LastEntry(c.events).result = WinLoss) =>
              c.rec[1].result = "loss"

C1_Witness ==
    \E c \in Emitted :
        /\ c.team = NoTeam
        /\ LastEntry(c.events).result = WinLoss
        /\ LastEntry(c.events).winningTeamId /= NoTeam
        /\ c.rec[1].result = "loss"

\* C2: a match with an identifier and events but no terminal result signal
\* is never emitted, and every emitted record has result win, loss or draw.
C2_NoTerminalNoRecord ==
    /\ \A c \in Calls : MatchEntries(c.events) = << >> => c.rec = Nothing
    /\ Len(matches) = Len(SelectSeq(hist.calls, LAMBDA c : c.rec /= Nothing))
    /\ \A i \in 1..Len(matches) : matches[i].result \in {"win", "loss", "draw"}

C2_Witness ==
    /\ rpc = "done"
    /\ matches = << >>
    /\ \E c \in Calls : c.at = hist.nblk /\ c.mid /= "" /\ c.events /= << >>
                        /\ MatchEntries(c.events) = << >>

\* The events block number j contributes when a match is in progress.
EventsOfBlock(j) ==
    LET b == hist.blocks[j] IN
    (IF b.data.room /= Nothing /\ b.data.room[1].finalMatchResult /= Nothing
       THEN { FmrEvent(j, b.data.room[1].finalMatchResult[1]) } ELSE {})
    \cup (IF b.data.gre /= Nothing
            THEN { MsgEvent(j, m) : m \in Range(b.data.gre[1]) } ELSE {})

C4_FixedAtCompletion ==
    \A c \in Emitted :
        c.sig.mid = c.mid =>
            /\ c.deck = c.sig.deck
            /\ c.format = c.sig.format
            /\ c.player_name = c.sig.player_name
            /\ c.events[Len(c.events)].fmr /= Nothing

\* C5: folding one block appends at most one record.
C5_AtMostOnePerBlock ==
    [][Len(matches') <= Len(matches) + 1]_vars


\* ------------------------------------------------ claims on the live path
\* What a batch replay of the whole text gives.
Batch == ExtractMatches(ExtractJsonBlocks(text))

StartsAfterSplit(match_id) == \A i \in 1..split : MatchOfMember(text[i]) /= match_id

AllFed == nchunks >= 1 /\ fed = Len(text)

\* The first chunk ends where an entry ends: no block straddles the chunks.
SplitAtEntry == SubSeq(text, 1, split) \in TextsOf(MaxEntries)

\* C6: the session state lasts for the whole watch: with the chunks split
\* between two blocks, a match that starts after the first chunk is stored
\* with the player name, result and deck a batch replay of the same text
\* gives it.
C6_LiveSameAsBatch ==
    (AllFed /\ SplitAtEntry) =>
        \A r \in conn.rows :
            StartsAfterSplit(r.match_id) =>
                \E m \in Range(Batch) :
                    /\ m.match_id = r.match_id
                    /\ m.player_name = r.player_name
                    /\ m.result = r.result
                    /\ m.deck_cards = r.deck_cards

\* C8: feeding a text in two chunks split at any offset gives the blocks,
\* and hence the matches, of the whole text: no block is lost.
C8_SplitSameAsWhole ==
    (AllFed /\ nchunks = 2) =>
        /\ Range(ExtractJsonBlocks(text)) \subseteq seen
        /\ { r.match_id : r \in conn.rows } = { m.match_id : m \in Range(Batch) }

\* --------------------------------------------------- claims on the watch
\* tail_file sleeps with nothing left to read: the handle is on the file
\* the path names and the cursor is at its end.
Quiescent ==
    /\ tpc = "loop"
    /\ path_ino /= NoFile
    /\ fh = path_ino
    /\ last_inode = path_ino
    /\ last_pos = Len(files[fh])

\* C7: every match whose start and terminal signal were appended to the
\* watched file after the watch began is persisted once the reader has
\* caught up, and no match is persisted twice, whatever the interleaving of
\* appends, polls, truncations and rotations.  (Matches whose bytes a
\* truncation removed are not counted.)
C7_AppendedMatchPersisted ==
    /\ Quiescent => appendedIds \subseteq { r.match_id : r \in conn.rows }
    /\ \A r1, r2 \in conn.rows : r1.match_id = r2.match_id => r1 = r2

\* C9: a rotation ends the reading of the old handle: every chunk tail_file
\* yields was read from the file whose identity the cursor holds, so no
\* bytes of an old file are yielded as content of the new one.
C9_YieldFromCursorFile ==
    \A y \in yielded : y.handle = y.cursor

\* C10: after tail_file has returned on a rotation, the reopened file is
\* read from offset zero.
C10_ReopenFromStart ==
    (reopen /\ tpc = "seeked") => last_pos = 0

\* C11: when the size of the open file is found smaller than the recorded
\* offset, tail_file sets the offset to zero and goes on, without raising,
\* to read the file from its start: what it yields next is the whole
\* content of the now-smaller file.
C11_TruncationRereads ==
    [][ /\ (tpc = "size" /\ tpc' /= "size" /\ fh = path_ino /\ Len(files[fh]) < last_pos)
            => (tpc' = "reread" /\ last_pos' = 0 /\ fh' = fh)
        /\ (tpc = "reread" /\ tpc' /= "reread")
            => /\ last_pos' = Len(files[fh])
               /\ fh' = fh
               /\ IF files[fh] = << >> THEN tpc' = "loop"
                  ELSE tpc' = "process" /\ chunk' = files[fh] ]_vars

\* A chunk was yielded after a truncation of the one file the path ever named.
C11_Witness ==
    /\ next_ino = 2
    /\ tpc = "process"
    /\ chunk = files[fh]
    /\ \E y \in yielded : y.reset /\ y.handle = path_ino /\ y.cursor = path_ino

\* C12: absent rotation and truncation, the chunks yielded so far,
\* concatenated, are exactly what was appended to the file between the
\* offset recorded at the start and the current offset: no gap, no overlap,
\* nothing from before the start; when the reader has caught up, that is
\* everything appended since the start.
C12_YieldsExactlyAppended ==
    (plain /\ began) =>
        /\ start_pos <= last_pos
        /\ last_pos <= Len(files[1])
        /\ out = SubSeq(files[1], start_pos + 1, last_pos)
        /\ Quiescent => out = SubSeq(files[1], start_pos + 1, Len(files[1]))

\* Two appended entries were yielded by a watch that started on a file
\* with content.
C12_Witness ==
    /\ plain /\ Quiescent
    /\ start_pos > 0
    /\ Len(out) > start_pos
    /\ Cardinality(yielded) = 1

\* C13: the offset is advanced only after the chunk has been handed to the
\* extractor: while a yielded chunk is not yet processed, the offset is
\* still at the start of that chunk in the file it was read from.
C13_OffsetAfterHandOff ==
    (tpc = "process" /\ chunk /= << >>) =>
        /\ last_pos + Len(chunk) <= Len(files[fh])
        /\ chunk = SubSeq(files[fh], last_pos + 1, last_pos + Len(chunk))

\* C14: when the reader looks at the path (lines 44, 52, 62) and the file
\* is missing, it neither ends tail_file nor gives up its handle: it sleeps
\* for the poll interval and polls again.
C14_MissingFileKeepsPolling ==
    [][ (path_ino = NoFile /\ tpc \in {"seeked", "loop", "size"} /\ tvars' /= tvars)
            => (tpc' = "loop" /\ fh' = fh) ]_vars

\* ------------------------------------------------------ claims on the store
\* What the second of two chunks gives when the first one emptied the buffer.
FirstStored ==
    StoreMatches(EmptyDb, ExtractMatches(ExtractJsonBlocks(SubSeq(text, 1, split)))).stored > 0

SecondCall == ExtractMatches(ExtractJsonBlocks(SubSeq(text, split + 1, Len(text))))

\* C15: the store holds at most one row for a match_id, and storing a
\* record whose match_id is already present leaves the stored row as it is:
\* no step removes or changes a row.
C15_StoreIdempotent ==
    [][ /\ \A r \in conn.rows : r \in conn'.rows
        /\ \A r1, r2 \in conn'.rows : r1.match_id = r2.match_id => r1 = r2 ]_vars

\* A second store_matches was given a record that differs from the stored
\* row of the same match_id.
C15_Witness ==
    /\ AllFed /\ nchunks = 2 /\ FirstStored
    /\ \E r \in conn.rows : \E m \in Range(SecondCall) :
          m.match_id = r.match_id /\ m /= r

\* C16: store_matches returns the number of rows that call inserted: the
\* count process_new_content hands to main is the number of rows the step
\* added to the store.
C16_CountsNewRows ==
    [][ lvars' /= lvars => new_count' = Cardinality(conn'.rows) - Cardinality(conn.rows) ]_vars

\* ------------------------------------------------------ claims on replays
\* The game states a log text reports.
GameStatesOf(t) ==
    UNION { Range(Payload(t[i]).gre[1]) : i \in { j \in 1..Len(t) : Payload(t[j]).gre /= Nothing } }

MaxTurnOf(t) ==
    CHOOSE n \in { g.turnNumber : g \in GameStatesOf(t) } :
        \A g \in GameStatesOf(t) : g.turnNumber <= n

ObjectsOfSeat(t, seat) ==
    { o.grpId : o \in { x \in UNION { Range(g.gameObjects) : g \in GameStatesOf(t) } :
                          x.ownerSeatId = seat } }

\* C17: replaying the same log text gives the same records every time,
\* the order of the serialized card lists included: a record leaves one
\* order only for each of its lists.
C17_SameRecordEveryRun ==
    \A i \in 1..Len(matches) :
        /\ \A o1, o2 \in ListOrders(matches[i].cards_played) : o1 = o2
        /\ \A o1, o2 \in ListOrders(matches[i].opponent_cards_seen) : o1 = o2

\* C18: a corrupted block between two well-formed matches changes nothing:
\* the blocks, the records and the rows are those of the log without it,
\* and both matches are there.
C18_CorruptedBlockIgnored ==
    rpc = "done" =>
        \A a \in FirstMatch, c \in Corrupted, b \in SecondMatch :
            text = a \o c \o b =>
                /\ seen = Range(ExtractJsonBlocks(a \o b))
                /\ matches = ExtractMatches(ExtractJsonBlocks(a \o b))
                /\ { m.match_id : m \in conn.rows } = {"A", "B"}

\* C19: a log of the shape of the sample gives exactly one record: a win,
\* the largest turn number reported, the objects of seat 1 among the
\* player's cards and those of seat 2 among the opponent's.
C19_SampleLogRecord ==
    (rpc = "done" /\ text \in SampleLogs) =>
        /\ Len(matches) = 1
        /\ Cardinality(conn.rows) = 1
        /\ matches[1].match_id = "A"
        /\ matches[1].result = "win"
        /\ matches[1].turns = MaxTurnOf(text)
        /\ ObjectsOfSeat(text, 1) \subseteq matches[1].cards_played
        /\ ObjectsOfSeat(text, 2) \subseteq matches[1].opponent_cards_seen

\* A sample log with two game states, the larger turn number first, was
\* replayed.
C19_Witness ==
    /\ rpc = "done"
    /\ text \in SampleLogs
    /\ Cardinality(GameStatesOf(text)) = 2
    /\ matches /= << >>
    /\ matches[Len(matches)].turns = 7
    /\ \E i \in 1..Len(text) : text[i] = "gre2" /\ \A j \in 1..Len(text) : text[j] = "gre" => j < i

\* ------------------------------------------------- claims on the result
\* The terminal signal of a match: the last of its events that carries a
\* final match result; its entries of match scope.
HasTerminal(events) == \E i \in 1..Len(events) : events[i].fmr /= Nothing

TerminalSignal(events) ==
    LET I == { i \in 1..Len(events) : events[i].fmr /= Nothing } IN
    events[CHOOSE i \in I : \A j \in I : j <= i].fmr[1].resultList

MatchScoped(rl) == SelectSeq(rl, LAMBDA r : r.scope = ScopeMatch)

\* C20: with the player's team resolved, the record's result is the one of
\* the match-scope entry of the terminal signal: a draw when its type is a
\* draw, else a win when its winning team is the player's and a loss when
\* it is another; the game-scope entries do not count.  (An entry that is
\* neither a draw nor a win/loss and names no winning team reports no
\* outcome and is not covered.)
C20_ResultFromMatchScope ==
    \A c \in Emitted :
        (c.team /= NoTeam /\ HasTerminal(c.events) /\ MatchScoped(TerminalSignal(c.events)) /= << >>) =>
            LET e == MatchScoped(TerminalSignal(c.events))[1] IN
            /\ e.result = Draw => c.rec[1].result = "draw"
            /\ (e.result /= Draw /\ (e.winningTeamId /= NoTeam \/ e.result = WinLoss)) =>
                  c.rec[1].result = IF e.winningTeamId = c.team THEN "win" ELSE "loss"

\* A match was lost although the game-scope entry of its terminal signal
\* names the player's team as winner.
C20_Witness ==
    \E c \in Emitted :
        /\ c.team /= NoTeam
        /\ HasTerminal(c.events)
        /\ \E r \in Range(TerminalSignal(c.events)) : r.scope = ScopeGame /\ r.winningTeamId = c.team
        /\ MatchScoped(TerminalSignal(c.events)) /= << >>
        /\ MatchScoped(TerminalSignal(c.events))[1].winningTeamId \notin {c.team, NoTeam}
        /\ c.rec[1].result = "loss"

\* ------------------------------------------- claims on the match sessions
\* C24: within one replay at most one record is emitted for a match
\* identifier, whatever the order in which the identifiers appear.
C24_OneRecordPerMatchId ==
    \A i, j \in 1..Len(matches) : matches[i].match_id = matches[j].match_id => i = j

\* The blocks of the replay between the adoption of a match identifier and
\* the build_match call c that hold a roster.
RostersOf(c) ==
    { j \in c.start..c.at : j <= Len(hist.blocks) /\ hist.blocks[j].data.room /= Nothing
                            /\ hist.blocks[j].data.room[1].reservedPlayers /= << >> }

\* C25: the team identifier and the opponent name a match is finalized with
\* come from a roster observed during that match: when no roster was seen
\* since the match identifier was adopted, both are unresolved.
C25_RosterOfSameMatch ==
    \A c \in Calls :
        RostersOf(c) = {} =>
            /\ c.team = NoTeam
            /\ c.rec /= Nothing => c.rec[1].opponent_name = NoneStr

\* The event identifiers the rosters of a match carry.
EventIdsOf(c) ==
    UNION { { p.eventId : p \in Range(hist.blocks[j].data.room[1].reservedPlayers) } : j \in RostersOf(c) } \ {""}

\* C26: when the rosters of a match carry an event identifier, the format
\* of its record is the normalization of that identifier, whatever label an
\* earlier match or deck submission left.
C26_FormatOfOwnEvent ==
    \A c \in Emitted :
        EventIdsOf(c) /= {} => \E ev \in EventIdsOf(c) : c.rec[1].format = NormalizeFormat(ev)

\* --------------------------------------------------- claims on the scan
\* The positions of the payloads of a log text.
PayloadsOf(t) == { i \in 1..Len(t) : t[i] \in Members }

\* C23: a well-formed log gives exactly one block for each of its payloads:
\* the payload that follows a tagged line is emitted once, under the tag of
\* that line, and not again when the scan reaches the payload's own line.
C23_OneBlockPerPayload ==
    (rpc \in {"store", "done"} /\ text \in SampleLogs) =>
        Len(hist.blocks) = Cardinality(PayloadsOf(text))

\* The patterns of the scan a line matches, by number: 1 the outbound call
\* with an inline payload, 2 the 'Match to' event line, 3 the '<==' response
\* line, 4 the logger-prefixed payload, 5 the bare payload line.
Triggers(line) ==
    { k \in 1..5 :
        \/ k = 1 /\ \E q \in 1..(Len(line) - 1) : line[q] = OutDeckTag /\ line[q + 1] = "{"
        \/ k = 2 /\ \E q \in 1..Len(line) : line[q] = EvtTag
        \/ k = 3 /\ (\E q \in 1..Len(line) : line[q] = InTag) /\ (Len(line) = 0 \/ line[1] /= OutDeckTag)
        \/ k = 4 /\ Len(line) > 1 /\ line[1] = LogTag /\ line[2] = "{"
        \/ k = 5 /\ Len(line) > 1 /\ line[1] = "{" }

First(S) == CHOOSE k \in S : \A j \in S : k <= j

\* The tags a block started by pattern k may carry.
TagsOf(k) ==
    CASE k = 1 -> {"EventSetDeckV2"}
      [] k = 2 -> {"MatchGameRoomStateChangedEvent"}
      [] k = 3 -> {"EventJoin"}
      [] k = 4 -> {"standalone"}
      [] OTHER -> {"GreToClientEvent", "MatchGameRoomStateChangedEvent", "AuthenticateResponse", "standalone"}

\* C28: a line starts at most one block, no block when it matches no
\* pattern, and the block it starts carries the tag of the first pattern,
\* in the order 1 to 5, that the line matches.
C28_FirstTriggerDecides ==
    rpc \in {"store", "done"} =>
        /\ hist.blocks = ExtractJsonBlocks(text)
        /\ \A i \in 1..Len(SplitLines(text)) :
              LET b == BlocksAt(SplitLines(text), i)
                  tr == Triggers(SplitLines(text)[i])
              IN /\ Len(b) <= 1
                 /\ tr = {} => b = << >>
                 /\ b /= << >> => b[1].method \in TagsOf(First(tr))
                 /\ (b /= << >> /\ First(tr) = 5) => b[1].method = TagByContent(b[1].data)

\* A line that matches the outbound pattern and the response pattern, with
\* a payload on the next line, started one block, the outbound call.
C28_Witness ==
    /\ rpc = "done"
    /\ text \in MixedLogs
    /\ {1, 3} \subseteq Triggers(SplitLines(text)[1])
    /\ Triggers(SplitLines(text)[2]) = {5}
    /\ Len(BlocksAt(SplitLines(text), 1)) = 1
    /\ hist.blocks[1].method = "EventSetDeckV2"

\* ---------------------------------------------------- claims on the turns
\* The turn numbers of the game states among the events of a match.
GameTurns(events) ==
    { e.msg[1].turnNumber : e \in { x \in Range(events) : x.msg /= Nothing /\ x.msg[1].type = TypeGameState } }

\* C30: the turns of a record are the largest turn number among the game
\* states accumulated for its match, and 0 when there is none: never
\* negative, never below a turn number observed in the match.
C30_TurnsIsMaximum ==
    \A c \in Emitted :
        /\ c.rec[1].turns >= 0
        /\ GameTurns(c.events) = {} => c.rec[1].turns = 0
        /\ GameTurns(c.events) /= {} => c.rec[1].turns \in GameTurns(c.events)
        /\ \A t \in GameTurns(c.events) : t <= c.rec[1].turns

\* One replay emitted a match without game states, with 0 turns, and a
\* match with game states.
C30_Witness ==
    /\ rpc = "done"
    /\ \E c \in Emitted : GameTurns(c.events) = {} /\ c.rec[1].turns = 0
    /\ \E c \in Emitted : GameTurns(c.events) /= {} /\ c.rec[1].turns > 0

\* ------------------------------------------------ claims on live failures
\* C22: no failure while a chunk is processed ends the watch: an exception
\* raised by the extraction, the reconstruction or the store is contained
\* and main goes on with the next chunk.
C22_WatchGoesOn == tpc /= "ended"

\* C27: unless its file was truncated, no byte is yielded twice: a read
\* that yields a chunk yields no offset of a file that an earlier read has
\* yielded already, whatever the vendor did between the steps of the poll.
C27_NoBytesYieldedTwice ==
    [][ (tpc \in {"read", "reread"} /\ tpc' = "process") =>
            \A k \in (last_pos + 1)..Len(files[fh]) : << fh, k >> \in got => fh \in cut ]_vars

\* ----------------------------------------------------- claims on formats
\* Two characters that are the same letter, whatever their case.
SameLetter(a, b) ==
    \/ a = b
    \/ \E k \in 1..26 : {a, b} = {UpperCase[k], LowerCase[k]}

\* The word w occurs in the text t, case ignored.
Occurs(w, t) ==
    \E q \in 0..(Len(t) - Len(Spell(w))) : \A k \in 1..Len(Spell(w)) : SameLetter(t[q + k], Spell(w)[k])

\* The rules of the claim, in their order: the words a label must hold and
\* the display name it gets.
Rules ==
    << [need |-> {"brawl", "historic"}, name |-> "Historic Brawl"],
       [need |-> {"brawl", "standard"}, name |-> "Standard Brawl"],
       [need |-> {"brawl"}, name |-> "Brawl"],
       [need |-> {"ladder"}, name |-> "Standard"],
       [need |-> {"play_constructed"}, name |-> "Standard"],
       [need |-> {"historic"}, name |-> "Historic"],
       [need |-> {"explorer"}, name |-> "Explorer"],
       [need |-> {"timeless"}, name |-> "Timeless"],
       [need |-> {"draft"}, name |-> "Draft"],
       [need |-> {"sealed"}, name |-> "Sealed"],
       [need |-> {"alchemy"}, name |-> "Alchemy"] >>

Applies(t) == { r \in 1..Len(Rules) : \A w \in Rules[r].need : Occurs(w, t) }

\* C21: the name returned is the display name of the first rule, in the
\* fixed order, whose words all occur in the label, case ignored (a label
\* with both 'brawl' and 'historic' gives 'Historic Brawl'); a label no rule
\* applies to is returned unchanged; and normalizing the name returned
\* gives the same name.
C21_NormalizeFormat ==
    /\ npc \in {"shown", "again"} =>
          /\ Applies(label) = {} => display_format = label
          /\ Applies(label) /= {} =>
                display_format = Spell(Rules[CHOOSE r \in Applies(label) : \A q \in Applies(label) : r <= q].name)
          /\ (Occurs("brawl", label) /\ Occurs("historic", label)) => display_format = Spell("Historic Brawl")
    /\ npc = "again" => display_again = display_format

\* An upper-case label that holds 'historic' before 'brawl' was normalized
\* to 'Historic Brawl', and so was that name.
C21_Witness ==
    /\ npc = "again"
    /\ label = Spell("historic") \o Spell("BRAWL")
    /\ display_format = Spell("Historic Brawl")
    /\ display_again = Spell("Historic Brawl")

\* ------------------------------------------------ claims on accumulation
\* C29: the accumulation appends at most SafetyLimit continuation lines;
\* when it stops at that ceiling with the count still above zero, no block
\* is produced for the line; and the scan ends: every step advances the
\* scan or the accumulation, which never pass the end of the text.
C29_CeilingIsParseFailure ==
    [][ /\ spc = "parse" => col_idx - (scan_i + 1) <= SafetyLimit
        /\ (spc = "parse" /\ col_depth > 0 /\ col_idx - (scan_i + 1) >= SafetyLimit) =>
              scan_blocks' = scan_blocks
        /\ scan_i' <= Len(scan_lines) + 1 /\ col_idx' <= Len(scan_lines) + 1
        /\ \/ scan_i' = scan_i + 1
           \/ scan_i' = scan_i /\ (col_idx' = col_idx + 1 \/ spc' /= spc) ]_vars

====
